---- MODULE Spec2Model ----
(***************************************************************************)
(* Cookie resolution and download resilience pipeline of app.py.           *)
(*                                                                         *)
(* Texts are sequences of tokens.  A token is one whitespace character     *)
(* (" ", "\t", "\n", "\r"), the character "#", a lone surrogate, or a      *)
(* word: a run of characters without whitespace.  Hosts are sequences of   *)
(* host fragments; SubstringsOf gives the literals of the source that a    *)
(* fragment contains.                                                      *)
(***************************************************************************)
EXTENDS Integers, Sequences, FiniteSets, TLC

None == "None"

SP == " "
TAB == "\t"
LF == "\n"
CR == "\r"
SURROGATE == "<lone-surrogate>"

\* str.rstrip(), str.strip() and the regex class \s
Whitespace == {SP, TAB, LF, CR}

----------------------------------------------------------------------------
(* Generic string helpers *)

RECURSIVE Concat(_)
Concat(seqs) ==
    IF seqs = <<>> THEN <<>> ELSE Head(seqs) \o Concat(Tail(seqs))

\* sep.join(parts)
RECURSIVE Join(_, _)
Join(parts, sep) ==
    IF parts = <<>> THEN <<>>
    ELSE IF Len(parts) = 1 THEN parts[1]
    ELSE parts[1] \o sep \o Join(Tail(parts), sep)

\* s.startswith(prefix)
StartsWith(s, prefix) ==
    /\ Len(s) >= Len(prefix)
    /\ SubSeq(s, 1, Len(prefix)) = prefix

\* s.endswith(suffix)
EndsWith(s, suffix) ==
    /\ Len(s) >= Len(suffix)
    /\ SubSeq(s, Len(s) - Len(suffix) + 1, Len(s)) = suffix

\* s.rstrip()
RECURSIVE RStrip(_)
RStrip(s) ==
    IF s # <<>> /\ s[Len(s)] \in Whitespace
    THEN RStrip(SubSeq(s, 1, Len(s) - 1))
    ELSE s

\* s.lstrip()
RECURSIVE LStrip(_)
LStrip(s) ==
    IF s # <<>> /\ Head(s) \in Whitespace THEN LStrip(Tail(s)) ELSE s

\* s.strip()
Strip(s) == LStrip(RStrip(s))

\* s.split(sep) for a one-character separator: always at least one part
RECURSIVE SplitOn(_, _)
SplitOn(s, sep) ==
    IF \A i \in 1..Len(s) : s[i] # sep THEN <<s>>
    ELSE LET i == CHOOSE k \in 1..Len(s) :
                      s[k] = sep /\ \A j \in 1..(k - 1) : s[j] # sep
         IN  <<SubSeq(s, 1, i - 1)>> \o SplitOn(SubSeq(s, i + 1, Len(s)), sep)

\* re.split(r"\s+", s, maxsplit=n): split at the first n runs of whitespace,
\* the rest of the string is the last part, kept as it is.  A string that
\* starts with whitespace gives an empty first part.
RECURSIVE ReSplitWs(_, _)
ReSplitWs(s, maxsplit) ==
    IF maxsplit = 0 \/ \A i \in 1..Len(s) : s[i] \notin Whitespace THEN <<s>>
    ELSE LET i == CHOOSE k \in 1..Len(s) :
                      s[k] \in Whitespace /\ \A j \in 1..(k - 1) : s[j] \notin Whitespace
         IN  <<SubSeq(s, 1, i - 1)>>
                 \o ReSplitWs(LStrip(SubSeq(s, i, Len(s))), maxsplit - 1)

\* txt.replace("\r\n", "\n").replace("\r", "\n"): the "\n" of a "\r\n" goes, and
\* every "\r" becomes "\n"
NormalizeNewlines(s) ==
    LET indexed == [i \in 1..Len(s) |-> [at |-> i, token |-> s[i]]]
        kept == SelectSeq(indexed,
                          LAMBDA p : ~(p.at > 1 /\ p.token = LF /\ s[p.at - 1] = CR))
    IN  [k \in 1..Len(kept) |-> IF kept[k].token = CR THEN LF ELSE kept[k].token]

\* s.encode("utf-8", "ignore").decode("utf-8", "ignore"): lone surrogates are dropped
Utf8Ignore(s) == SelectSeq(s, LAMBDA c : c # SURROGATE)

----------------------------------------------------------------------------
(* Cookie sanitizer: _sanitize_netscape_text *)

HEADER_NETSCAPE == <<"#", SP, "Netscape", SP, "HTTP", SP, "Cookie", SP, "File">>
HEADER_URL == <<"#", SP, "http://curl.haxx.se/rfc/cookie_spec.html">>
HEADER_GENERATED ==
    <<"#", SP, "This", SP, "is", SP, "a", SP, "generated", SP, "file!", SP, SP,
      "Do", SP, "not", SP, "edit.">>

\* the body of the for loop for one data (non-comment) line
SanitizeDataLine(line) ==
    IF \A i \in 1..Len(line) : line[i] # TAB
    THEN LET parts == ReSplitWs(line, 6)
         IN  IF Len(parts) >= 7
             THEN Join(SubSeq(parts, 1, 6), <<TAB>>) \o <<TAB>> \o parts[7]
             ELSE line
    ELSE line

\* the for loop: the lines kept, in order
RECURSIVE SanitizeLines(_)
SanitizeLines(raws) ==
    IF raws = <<>> THEN <<>>
    ELSE LET line == RStrip(Head(raws))
             rest == SanitizeLines(Tail(raws))
         IN  IF line = <<>> THEN rest
             ELSE IF StartsWith(line, <<"#">>) THEN <<line>> \o rest
             ELSE <<SanitizeDataLine(line)>> \o rest

SeenHeaderNever(raws) == FALSE

\* seen_header after the loop
SeenHeader(raws) ==
    \E i \in 1..Len(raws) : StartsWith(RStrip(raws[i]), HEADER_NETSCAPE)

_sanitize_netscape_text(cookies_txt) ==
    IF cookies_txt = <<>> THEN <<>>
    ELSE LET txt == NormalizeNewlines(Utf8Ignore(cookies_txt))
             raws == SplitOn(txt, LF)
             kept == SanitizeLines(raws)
             lines == IF SeenHeader(raws) THEN kept
                      ELSE <<HEADER_NETSCAPE, HEADER_URL, HEADER_GENERATED>> \o kept
         IN  Join(lines, <<LF>>) \o <<LF>>

----------------------------------------------------------------------------
(* URLs and hosts *)

\* a URL that urllib.parse.urlparse rejects with ValueError: "http://["
BAD_URL == [netloc |-> <<"[">>, path |-> "", query |-> {}]

YOUTUBE_URL == [netloc |-> <<"www.", "youtube.com">>, path |-> "/watch", query |-> {"v"}]
YOUTU_BE_URL == [netloc |-> <<"youtu.be">>, path |-> "/VIDEOID", query |-> {}]
INSTAGRAM_URL == [netloc |-> <<"www.", "instagram.com">>, path |-> "/reel/ID", query |-> {}]
TIKTOK_URL == [netloc |-> <<"www.", "tiktok.com">>, path |-> "/@user/video/ID", query |-> {}]
OTHER_URL == [netloc |-> <<"example.com">>, path |-> "/clip", query |-> {}]

\* the URLs of the requests
Urls == {YOUTU_BE_URL, INSTAGRAM_URL, TIKTOK_URL, OTHER_URL, BAD_URL}

\* the literals of the source that occur in a host fragment
SubstringsOf(fragment) ==
    CASE fragment = "youtube.com" -> {"youtube.com", "youtube", "youtu"}
      [] fragment = "youtu.be" -> {"youtu.be", "youtu"}
      [] fragment = "instagram.com" -> {"instagram.com", "instagram"}
      [] fragment = "tiktok.com" -> {"tiktok.com", "tiktok"}
      [] fragment = "facebook.com" -> {"facebook.com"}
      [] fragment = "fb.watch" -> {"fb.watch"}
      [] OTHER -> {}

\* literal in host
Contains(host, literal) == \E i \in 1..Len(host) : literal \in SubstringsOf(host[i])

\* urlsplit: a "[" in the netloc without its "]" is an "Invalid IPv6 URL"
UrlParseRaises(u) == \E i \in 1..Len(u.netloc) : u.netloc[i] = "["

\* str.lower() of a host fragment
Lower(fragment) ==
    CASE fragment = "WWW." -> "www."
      [] fragment = "YouTube.COM" -> "youtube.com"
      [] OTHER -> fragment

\* (urlparse(url).netloc or "").lower(), for a URL that urlparse accepts
HostOf(url) == [i \in 1..Len(url.netloc) |-> Lower(url.netloc[i])]

IsYoutubeHost(host) == Contains(host, "youtube.com") \/ Contains(host, "youtu.be")

\* the key returned for a host
DomainKeyOfHost(host) ==
    IF Contains(host, "instagram.com") THEN <<"instagram.com">>
    ELSE IF IsYoutubeHost(host) THEN <<"youtube.com">>
    ELSE IF Contains(host, "tiktok.com") THEN <<"tiktok.com">>
    ELSE IF Contains(host, "facebook.com") \/ Contains(host, "fb.watch")
         THEN <<"facebook.com">>
    ELSE IF host # <<>> THEN host ELSE <<"unknown">>

\* key: the value returned; raised: the exception that leaves the function
\* instead, urlparse being called outside any try
_domain_key_for(url) ==
    IF UrlParseRaises(url) THEN [key |-> <<>>, raised |-> "ValueError"]
    ELSE [key |-> DomainKeyOfHost(HostOf(url)), raised |-> None]

_normalize_youtube_url(u) ==
    IF UrlParseRaises(u) THEN u
    ELSE IF ~IsYoutubeHost(HostOf(u)) THEN u
    ELSE LET shorts == u.path = "/shorts/VIDEOID"
             u1 == IF shorts THEN [u EXCEPT !.path = "/watch", !.query = @ \cup {"v"}]
                   ELSE u
             u2 == IF Contains(HostOf(u1), "youtu.be") /\ "v" \notin u1.query
                       /\ u1.path \notin {"", "/"}
                   THEN [netloc |-> <<"www.", "youtube.com">>, path |-> "/watch",
                         query |-> u1.query \cup {"v"}]
                   ELSE u1
         IN  [u2 EXCEPT !.netloc = HostOf(u2), !.query = @ \cup {"has_verified", "bpctr"}]

----------------------------------------------------------------------------
(* Cookie texts of the requests, the environment and the remote store *)

CookieLine(domain, secure, name, value, sep) ==
    <<domain, sep, "TRUE", sep, "/", sep, secure, sep, "0", sep, name, sep, value>>

\* pasted with spaces, without the header
INLINE_COOKIES == CookieLine(".youtube.com", "TRUE", "SAPISID", "inline-value", SP)

\* a well formed jar that already holds the CONSENT cookie
ENV_COOKIES ==
    HEADER_NETSCAPE \o <<LF>>
        \o CookieLine(".youtube.com", "FALSE", "CONSENT", "YES+env", TAB) \o <<LF>>

\* a jar stored with CRLF line ends
STORE_COOKIES ==
    CookieLine(".instagram.com", "TRUE", "sessionid", "store-value", TAB) \o <<CR, LF>>

\* a jar without SAPISID, the __Secure-1PAPISID line before the __Secure-3PAPISID line
SECURE_COOKIES ==
    CookieLine(".youtube.com", "TRUE", "__Secure-1PAPISID", "value-1p", TAB) \o <<LF>>
        \o CookieLine(".youtube.com", "TRUE", "__Secure-3PAPISID", "value-3p", TAB) \o <<LF>>

BLANK_TEXT == <<SP, LF>>

\* the value of a Cookie header pasted in place of a cookie file
PASTED_COOKIE_HEADER == <<"SID=abc;", SP, "HSID=def">>

\* cookies_txt of a request
CookieTexts == {<<>>, BLANK_TEXT, INLINE_COOKIES, PASTED_COOKIE_HEADER}

\* prefer of a request: the four values of the docstring, one that is none of them,
\* and the empty string
PreferValues == {"auto", "request", "env", "supabase", "bogus", ""}

EnvVars == {"YTDLP_COOKIES_B64", "IG_COOKIES_B64", "TK_COOKIES_B64", "FB_COOKIES_B64"}

\* (os.getenv(var) or "").strip(): empty when the variable is unset, a value
\* base64.b64decode rejects (incorrect padding), or the base64 encoding of a text
UNSET == <<>>
UNDECODABLE == <<"QQ">>
B64Encode(text) == <<"base64">> \o text
B64DecodeRaises(b64) == Head(b64) # "base64"
B64Decode(b64) == Tail(b64)
EnvValues == {UNSET, UNDECODABLE, B64Encode(ENV_COOKIES)}

\* the deployments: the YouTube and Instagram variables take every value
Environments ==
    {e \in [EnvVars -> EnvValues] :
        e["TK_COOKIES_B64"] = UNSET /\ e["FB_COOKIES_B64"] = UNSET}

\* SUPABASE_URL and SUPABASE_ANON_KEY
SupabaseSettings ==
    {[url |-> <<>>, key |-> ""],
     [url |-> <<"https", "://project.supabase.co">>, key |-> "anon-key"]}

\* what requests.get gives: an exception (status 0 here), or a response to the query
\* select=cookie_text,updated_at&host=eq.<key>. legacy_rows is what the table holds
\* for the key in its older columns {domain, cookies_txt}, which the query does not
\* select and the response does not carry
TIMEOUT == [status |-> 0, rows |-> <<>>, legacy_rows |-> <<>>]
NOT_ASKED == [status |-> -1, rows |-> <<>>, legacy_rows |-> <<>>]
NO_ROWS == [status |-> 200, rows |-> <<>>, legacy_rows |-> <<>>]
LEGACY_ONLY == [status |-> 200, rows |-> <<>>,
                legacy_rows |-> <<[cookies_txt |-> STORE_COOKIES]>>]
StoreResponses ==
    {TIMEOUT,
     [status |-> 500, rows |-> <<>>, legacy_rows |-> <<>>],
     NO_ROWS,
     LEGACY_ONLY,
     [status |-> 200, rows |-> <<[cookie_text |-> <<>>]>>, legacy_rows |-> <<>>],
     [status |-> 200, rows |-> <<[cookie_text |-> STORE_COOKIES]>>, legacy_rows |-> <<>>]}

----------------------------------------------------------------------------
(* State *)

\* the requests that can be in service
Requests == {"r1", "r2"}

VARIABLES
    environ,                \* os.environ: the *_COOKIES_B64 variables
    supabase,               \* SUPABASE_URL, SUPABASE_ANON_KEY
    tmpfiles,               \* the files made by tempfile.NamedTemporaryFile: the
                            \* path of a file is its index, its content the element
    LAST_COOKIE_SOURCE,
    LAST_COOKIE_SNAPSHOT,
    AUTH_SNAPSHOT,
    AUTH_USING,
    SUCCESS_CLIENT,
    pc,                     \* where each request is in _download_best_audio
    url,                    \* its url, after _normalize_youtube_url
    cookies_txt,
    prefer,
    cookiefile,             \* what _choose_cookiefile returned
    consulted,              \* the source functions _choose_cookiefile called, in order
    storeReply,             \* what the remote store answered, NOT_ASKED when not queried
    extra_auth_headers,
    calls,                  \* the downloader invocations: the label, the cookiefile
                            \* option, the http_headers option, and how the
                            \* invocation ended
    inflight,               \* the labels of the invocations that have not ended
    errors,                 \* the errors list of the loop
    tmpdir,                 \* the extensions of the files in tmpdir
    outcome,                \* how the call ended: a path, or the error raised
    lastServed,             \* history: the domain key, path and age of the last jar
                            \* served by the remote store
    raw_text,               \* the sanitizer on its own: the text given,
    once,                   \* _sanitize_netscape_text(raw_text),
    twice,                  \* _sanitize_netscape_text(once),
    sanitized,              \* and how many of the two calls were made
    classified_url,         \* the classifier on its own: the URL given,
    classified_key,         \* what _domain_key_for(classified_url) gave,
    classified_platform     \* and the variable, referer and format chosen for it

requestVars ==
    <<pc, url, cookies_txt, prefer, cookiefile, consulted, storeReply,
      extra_auth_headers, calls,
      inflight, errors, tmpdir, outcome>>
globalVars ==
    <<LAST_COOKIE_SOURCE, LAST_COOKIE_SNAPSHOT, AUTH_SNAPSHOT, AUTH_USING,
      SUCCESS_CLIENT>>
sanitizerVars == <<raw_text, once, twice, sanitized>>
classifierVars == <<classified_url, classified_key, classified_platform>>
vars == <<environ, supabase, tmpfiles, globalVars, requestVars, lastServed, sanitizerVars,
          classifierVars>>

----------------------------------------------------------------------------
(* Cookie sources *)

\* no path: the None of "str | None"
NoPath == <<>>

\* tf = tempfile.NamedTemporaryFile(delete=False); tf.write(content); return tf.name
NewTempFile(files, content) ==
    [cf |-> <<Len(files) + 1>>, files |-> Append(files, content), raised |-> None]

NoCookiefile(files) == [cf |-> NoPath, files |-> files, raised |-> None]

Raises(files, error) == [cf |-> NoPath, files |-> files, raised |-> error]

_supabase_can_use ==
    /\ supabase.url # <<>>
    /\ supabase.key # ""
    /\ Head(supabase.url) \in {"http", "https"}

\* reply is what requests.get gives when the request is made
_get_latest_cookies_from_supabase(domain_key, reply) ==
    IF ~_supabase_can_use THEN <<>>
    ELSE IF reply = TIMEOUT THEN <<>>
    ELSE IF reply.status = 200 /\ reply.rows # <<>> /\ reply.rows[1].cookie_text # <<>>
         THEN reply.rows[1].cookie_text
    ELSE <<>>

EnvVarFor(host) ==
    IF IsYoutubeHost(host) THEN "YTDLP_COOKIES_B64"
    ELSE IF Contains(host, "instagram.com") THEN "IG_COOKIES_B64"
    ELSE IF Contains(host, "tiktok.com") THEN "TK_COOKIES_B64"
    ELSE IF Contains(host, "facebook.com") \/ Contains(host, "fb.watch")
         THEN "FB_COOKIES_B64"
    ELSE None

_cookiefile_from_env_for_unguarded(u, files) ==
    IF UrlParseRaises(u) THEN Raises(files, "ValueError")
    ELSE LET var == EnvVarFor(HostOf(u))
         IN  IF var = None THEN NoCookiefile(files)
             ELSE IF environ[var] = <<>> THEN NoCookiefile(files)
             ELSE IF B64DecodeRaises(environ[var]) THEN Raises(files, "binascii.Error")
             ELSE NewTempFile(files, B64Decode(environ[var]))

\* the body after line 131 is in a try: an exception gives None
_cookiefile_from_env_for(u, files) ==
    IF UrlParseRaises(u) THEN Raises(files, "ValueError")
    ELSE LET var == EnvVarFor(HostOf(u))
         IN  IF var = None THEN NoCookiefile(files)
             ELSE IF environ[var] = <<>> THEN NoCookiefile(files)
             ELSE IF B64DecodeRaises(environ[var]) THEN NoCookiefile(files)
             ELSE NewTempFile(files, B64Decode(environ[var]))

_cookiefile_from_request(txt, files) ==
    IF txt = <<>> \/ Strip(txt) = <<>> THEN NoCookiefile(files)
    ELSE NewTempFile(files, _sanitize_netscape_text(txt))

_cookiefile_from_supabase(u, reply, files) ==
    IF _domain_key_for(u).raised # None THEN Raises(files, _domain_key_for(u).raised)
    ELSE LET txt == _get_latest_cookies_from_supabase(_domain_key_for(u).key, reply)
         IN  IF txt = <<>> THEN NoCookiefile(files)
             ELSE NewTempFile(files, _sanitize_netscape_text(txt))

\* whether _cookiefile_from_supabase sends a request to the remote store
QueriesStore(u) == ~UrlParseRaises(u) /\ _supabase_can_use

CONSENT_LINE ==
    CookieLine(".youtube.com", "FALSE", "CONSENT", "YES+cb.20210328-17-p0.en+FX+123", TAB)
        \o <<LF>>

\* the index of the first token at or after p that is not whitespace
RECURSIVE SkipWhitespace(_, _)
SkipWhitespace(text, p) ==
    IF p <= Len(text) /\ text[p] \in Whitespace THEN SkipWhitespace(text, p + 1) ELSE p

\* the words, each followed by \s+, match text at p
RECURSIVE MatchWords(_, _, _)
MatchWords(text, p, words) ==
    \/ words = <<>>
    \/ /\ p + 1 <= Len(text)
       /\ text[p] = Head(words)
       /\ text[p + 1] \in Whitespace
       /\ MatchWords(text, SkipWhitespace(text, p + 1), Tail(words))

\* re.search(r"^[.]youtube[.]com\s+TRUE\s+/\s+FALSE\s+0\s+CONSENT\s+", txt, re.M)
HasConsentCookie(txt) ==
    \E p \in 1..Len(txt) :
        /\ p = 1 \/ txt[p - 1] = LF
        /\ MatchWords(txt, p, <<".youtube.com", "TRUE", "/", "FALSE", "0", "CONSENT">>)

\* the CONSENT line appended to the file itself
_ensure_consent_cookie_in_place(cookie_path, files) ==
    IF HasConsentCookie(NormalizeNewlines(Utf8Ignore(files[cookie_path[1]])))
    THEN [cf |-> cookie_path, files |-> files, raised |-> None]
    ELSE [cf |-> cookie_path,
          files |-> [files EXCEPT ![cookie_path[1]] = @ \o <<LF>> \o CONSENT_LINE],
          raised |-> None]

\* pathlib.Path(p).read_text() and open(p, "r"): the line ends are translated
ReadText(files, path) == NormalizeNewlines(Utf8Ignore(files[path[1]]))

_ensure_consent_cookie(cookie_path, files) ==
    LET txt == ReadText(files, cookie_path)
    IN  IF HasConsentCookie(txt) THEN [cf |-> cookie_path, files |-> files, raised |-> None]
        ELSE NewTempFile(files,
                 (IF EndsWith(txt, <<LF>>) THEN txt ELSE txt \o <<LF>>) \o CONSENT_LINE)

\* the lines of "for line in f": each keeps its line end
RECURSIVE FileLines(_)
FileLines(txt) ==
    IF txt = <<>> THEN <<>>
    ELSE IF \A i \in 1..Len(txt) : txt[i] # LF THEN <<txt>>
    ELSE LET i == CHOOSE k \in 1..Len(txt) : txt[k] = LF /\ \A j \in 1..(k - 1) : txt[j] # LF
         IN  <<SubSeq(txt, 1, i)>> \o FileLines(SubSeq(txt, i + 1, Len(txt)))

RECURSIVE MapStrip(_)
MapStrip(lines) ==
    IF lines = <<>> THEN <<>> ELSE <<Strip(Head(lines))>> \o MapStrip(Tail(lines))

\* the first 20 lines of the jar that are neither comments nor blank, stripped
CookieSnapshot(files, path) ==
    LET kept == SelectSeq(FileLines(ReadText(files, path)),
                          LAMBDA line : ~StartsWith(line, <<"#">>) /\ Strip(line) # <<>>)
    IN  MapStrip(SubSeq(kept, 1, IF Len(kept) < 20 THEN Len(kept) ELSE 20))

----------------------------------------------------------------------------
(* Cookie source resolver: _choose_cookiefile *)

FROM_REQUEST == "_cookiefile_from_request"
FROM_ENV == "_cookiefile_from_env_for"
FROM_SUPABASE == "_cookiefile_from_supabase"

DefaultSources == <<FROM_REQUEST, FROM_ENV, FROM_SUPABASE>>

SourceOrderEnvFirst(pref) == <<FROM_ENV, FROM_REQUEST, FROM_SUPABASE>>

SourceOrderIgnoresPrefer(pref) == DefaultSources

\* the sources list built from prefer
SourceOrder(pref) ==
    LET key == IF pref = "" THEN "auto" ELSE pref
    IN  CASE key = "request" -> <<FROM_REQUEST, FROM_ENV, FROM_SUPABASE>>
          [] key = "env" -> <<FROM_ENV, FROM_REQUEST, FROM_SUPABASE>>
          [] key = "supabase" -> <<FROM_SUPABASE, FROM_REQUEST, FROM_ENV>>
          [] key = "auto" -> <<FROM_REQUEST, FROM_ENV, FROM_SUPABASE>>
          [] OTHER -> DefaultSources

\* cf = fn(url) if fn in (env, supabase) else fn(cookies_txt)
CallSource(fn, u, txt, reply, files) ==
    IF fn = FROM_ENV THEN _cookiefile_from_env_for(u, files)
    ELSE IF fn = FROM_SUPABASE THEN _cookiefile_from_supabase(u, reply, files)
    ELSE _cookiefile_from_request(txt, files)

\* the value the loop gives LAST_COOKIE_SOURCE when fn yields a jar
SourceName(fn) ==
    IF fn = FROM_REQUEST THEN "request"
    ELSE IF fn = FROM_ENV THEN "env"
    ELSE "supabase"

\* the for loop over sources: the first jar, the sources called, the files written
RECURSIVE TrySources(_, _, _, _, _)
RECURSIVE TrySource(_, _, _, _, _, _)

\* one turn of the loop: res is what the source function fn gave: "if cf: ... break"
TrySource(fn, res, others, u, txt, reply) ==
    IF res.raised # None \/ res.cf # NoPath
    THEN [cf |-> res.cf,
          source |-> IF res.cf # NoPath THEN SourceName(fn) ELSE None,
          files |-> res.files, raised |-> res.raised, consulted |-> <<fn>>]
    ELSE [TrySources(others, u, txt, reply, res.files) EXCEPT !.consulted = <<fn>> \o @]

TrySources(sources, u, txt, reply, files) ==
    IF sources = <<>>
    THEN [cf |-> NoPath, source |-> None, files |-> files, raised |-> None,
          consulted |-> <<>>]
    ELSE TrySource(Head(sources), CallSource(Head(sources), u, txt, reply, files),
                   Tail(sources), u, txt, reply)

\* ret: the path returned; raised: the exception that leaves the function instead;
\* source, snapshot: LAST_COOKIE_SOURCE and LAST_COOKIE_SNAPSHOT afterwards
\* lines 271 to 284: jar is the file after the CONSENT step
ReturnJar(found, jar) ==
    [ret |-> jar.cf, raised |-> None, files |-> jar.files, consulted |-> found.consulted,
     source |-> found.source, snapshot |-> CookieSnapshot(jar.files, jar.cf)]

MissKeepsSource(found) ==
    [ret |-> NoPath, raised |-> None, files |-> found.files,
     consulted |-> found.consulted, source |-> LAST_COOKIE_SOURCE,
     snapshot |-> LAST_COOKIE_SNAPSHOT]

\* lines 259 to 262: no source gave a jar
Miss(found) ==
    [ret |-> NoPath, raised |-> None, files |-> found.files,
     consulted |-> found.consulted, source |-> "none", snapshot |-> <<>>]

\* lines 259 to 284: found is what the loop over the sources gave
AfterSources(found, u) ==
    IF found.raised # None
    THEN [ret |-> NoPath, raised |-> found.raised, files |-> found.files,
          consulted |-> found.consulted, source |-> LAST_COOKIE_SOURCE,
          snapshot |-> LAST_COOKIE_SNAPSHOT]
    ELSE IF found.cf = NoPath THEN Miss(found)
    ELSE IF UrlParseRaises(u)
    THEN [ret |-> NoPath, raised |-> "ValueError", files |-> found.files,
          consulted |-> found.consulted, source |-> found.source,
          snapshot |-> LAST_COOKIE_SNAPSHOT]
    ELSE IF IsYoutubeHost(HostOf(u))
    THEN ReturnJar(found, _ensure_consent_cookie(found.cf, found.files))
    ELSE ReturnJar(found, [cf |-> found.cf, files |-> found.files])

_choose_cookiefile(u, txt, pref, reply, files) ==
    AfterSources(TrySources(SourceOrder(pref), u, txt, reply, files), u)

----------------------------------------------------------------------------
(* Authorization headers: _read_cookies_map, _build_sapisidhash_headers *)

\* cookies.get(name) of the map _read_cookies_map builds from the lines of the jar:
\* the value of the last line that gives the name, <<>> when there is none
RECURSIVE CookieValue(_, _)
CookieValue(lines, name) ==
    IF lines = <<>> THEN <<>>
    ELSE LET ln == lines[Len(lines)]
             parts == ReSplitWs(Strip(ln), 6)
         IN  IF ~StartsWith(ln, <<"#">>) /\ Len(parts) >= 7 /\ parts[6] = <<name>>
             THEN parts[7]
             ELSE CookieValue(SubSeq(lines, 1, Len(lines) - 1), name)

SAPISID_NAMES_Reversed == <<"__Secure-1PAPISID", "__Secure-3PAPISID", "SAPISID">>

SAPISID_NAMES == <<"SAPISID", "__Secure-3PAPISID", "__Secure-1PAPISID">>

\* the first name of SAPISID_NAMES from position i on that has a value, None when none has
RECURSIVE FirstCookieWithValue(_, _)
FirstCookieWithValue(lines, i) ==
    IF i > Len(SAPISID_NAMES) THEN None
    ELSE IF CookieValue(lines, SAPISID_NAMES[i]) # <<>> THEN SAPISID_NAMES[i]
    ELSE FirstCookieWithValue(lines, i + 1)

\* the digest is kept as the triple it is computed from, without the timestamp
_build_sapisidhash_headers(origin, cookie_path, files) ==
    LET lines == FileLines(ReadText(files, cookie_path))
        used == FirstCookieWithValue(lines, 1)
    IN  IF used = None THEN [headers |-> <<>>, used |-> None]
        ELSE [headers |->
                  ("Authorization" :> <<"SAPISIDHASH", origin>> \o CookieValue(lines, used))
                      @@ ("X-Origin" :> <<origin>>) @@ ("X-Goog-AuthUser" :> <<"0">>),
              used |-> used]

----------------------------------------------------------------------------
(* Client strategies: the attempts list of _download_best_audio *)

UA_DESKTOP == <<"Mozilla/5.0 (Macintosh; Intel Mac OS X 10_15_7) Chrome/126.0.0.0 Safari/537.36">>
UA_MOBILE == <<"Mozilla/5.0 (Linux; Android 10; K) Chrome/126.0.0.0 Mobile Safari/537.36">>

RefererFor(host) ==
    IF Contains(host, "youtu") THEN <<"https://www.youtube.com/">>
    ELSE IF Contains(host, "instagram") THEN <<"https://www.instagram.com/">>
    ELSE IF Contains(host, "tiktok") THEN <<"https://www.tiktok.com/">>
    ELSE <<"https://www.facebook.com/">>

YT_FMT == "bestaudio[ext=m4a]/bestaudio[acodec^=mp4a]/bestaudio/webm/bestaudio/best"
IG_FMT == "bestaudio[ext=m4a]/bestaudio[acodec^=mp4a]/bestaudio/best"
TK_FMT == "bestaudio[ext=m4a]/bestaudio/best"
FB_FMT == "bestaudio[ext=m4a]/bestaudio/best"

pick_fmt(host) ==
    IF Contains(host, "youtu") THEN YT_FMT
    ELSE IF Contains(host, "instagram") THEN IG_FMT
    ELSE IF Contains(host, "tiktok") THEN TK_FMT
    ELSE FB_FMT

base_headers(host, ua) ==
    ("User-Agent" :> ua)
        @@ ("Accept-Language" :> <<"pt-BR,pt;q=0.9,en-US;q=0.8,en;q=0.7">>)
        @@ ("Referer" :> RefererFor(host))
        @@ ("Origin" :> IF Contains(host, "youtu") THEN <<"https://www.youtube.com">>
                        ELSE RefererFor(host))

ClientHeaders(name, version) ==
    ("X-YouTube-Client-Name" :> <<name>>) @@ ("X-YouTube-Client-Version" :> <<version>>)

NavigationHeaders ==
    ("sec-fetch-site" :> <<"same-origin">>) @@ ("sec-fetch-mode" :> <<"navigate">>)
        @@ ("sec-fetch-user" :> <<"?1">>) @@ ("sec-fetch-dest" :> <<"document">>)
        @@ ("upgrade-insecure-requests" :> <<"1">>)

headers_for(host, extra, client, ua) ==
    LET hdrs == extra @@ base_headers(host, ua)
        named ==
            CASE client = "web" -> ClientHeaders("1", "2.20241001.00.00") @@ hdrs
              [] client = "mweb" -> ClientHeaders("2", "2.20241001.00.00") @@ hdrs
              [] client = "android" -> ClientHeaders("3", "19.33.37") @@ hdrs
              [] client = "ios" -> ClientHeaders("5", "19.09.3") @@ hdrs
              [] client \in {"tv", "tv_embedded", "web_embedded"} ->
                     ClientHeaders("1", "2.20241001.00.00") @@ hdrs
              [] OTHER -> hdrs
    IN  NavigationHeaders @@ named

Strategy(host, extra, label, ua) ==
    [label |-> label,
     http_headers |-> headers_for(host, extra, label, ua),
     player_client |-> <<label>>]

AttemptsTvFirst(host, extra) ==
    <<Strategy(host, extra, "tv", UA_DESKTOP),
      Strategy(host, extra, "mweb", UA_MOBILE),
      Strategy(host, extra, "web_embedded", UA_DESKTOP),
      Strategy(host, extra, "android", UA_MOBILE),
      Strategy(host, extra, "ios", UA_MOBILE),
      Strategy(host, extra, "web", UA_DESKTOP),
      Strategy(host, extra, "tv_embedded", UA_DESKTOP)>>

\* the attempts list
Attempts(host, extra) ==
    <<Strategy(host, extra, "web", UA_DESKTOP),
      Strategy(host, extra, "mweb", UA_MOBILE),
      Strategy(host, extra, "web_embedded", UA_DESKTOP),
      Strategy(host, extra, "android", UA_MOBILE),
      Strategy(host, extra, "ios", UA_MOBILE),
      Strategy(host, extra, "tv", UA_DESKTOP),
      Strategy(host, extra, "tv_embedded", UA_DESKTOP)>>

\* label.upper()
Upper(label) ==
    CASE label = "web" -> "WEB"
      [] label = "mweb" -> "MWEB"
      [] label = "web_embedded" -> "WEB_EMBEDDED"
      [] label = "android" -> "ANDROID"
      [] label = "ios" -> "IOS"
      [] label = "tv" -> "TV"
      [] label = "tv_embedded" -> "TV_EMBEDDED"

PickFormat(host) ==
    IF Contains(host, "youtu")
    THEN "bestaudio[ext=m4a]/bestaudio[acodec^=mp4a]/bestaudio/webm/bestaudio/best"
    ELSE IF Contains(host, "instagram")
    THEN "bestaudio[ext=m4a]/bestaudio[acodec^=mp4a]/bestaudio/best"
    ELSE "bestaudio[ext=m4a]/bestaudio/best"

HintForNone(host) == ""

\* the hint of the error raised when every attempt failed
HintFor(host) ==
    IF Contains(host, "youtu") THEN "YouTube pode exigir cookies"
    ELSE IF Contains(host, "instagram") THEN "Instagram geralmente exige cookies validos"
    ELSE ""

ExtensionOrderReversed == <<"mkv", "mp4", "mp3", "opus", "webm", "m4a">>

\* the extensions looked for in tmpdir, in this order
ExtensionOrder == <<"m4a", "webm", "opus", "mp3", "mp4", "mkv">>

\* what a download can leave in tmpdir
DownloadedFiles == {{"part"}, {"webm", "m4a"}, {"mkv", "mp3"}}

\* str(e) of the exception of a failed attempt
DownloadErrors == {"Sign in to confirm you're not a bot"}

----------------------------------------------------------------------------
(* _download_best_audio, one step at a time *)

\* the temporary files a model run may create
MaxTmpFiles == 3

NO_URL == [netloc |-> <<>>, path |-> "", query |-> {}]

Running == [kind |-> "running", path |-> "", error |-> "", entries |-> <<>>, hint |-> ""]

Returned(path) == [Running EXCEPT !.kind = "returned", !.path = path]

Raised(error, entries, hint) ==
    [Running EXCEPT !.kind = "raised", !.error = error, !.entries = entries, !.hint = hint]

NoLastServed == [key |-> <<>>, path |-> NoPath, fresh |-> FALSE]

\* the server after start up, no request made yet
InitServer ==
    /\ tmpfiles = <<>>
    /\ LAST_COOKIE_SOURCE = "none"
    /\ LAST_COOKIE_SNAPSHOT = <<>>
    /\ AUTH_SNAPSHOT = <<>>
    /\ AUTH_USING = None
    /\ SUCCESS_CLIENT = None
    /\ pc = [r \in Requests |-> "idle"]
    /\ url = [r \in Requests |-> NO_URL]
    /\ cookies_txt = [r \in Requests |-> <<>>]
    /\ prefer = [r \in Requests |-> "auto"]
    /\ cookiefile = [r \in Requests |-> NoPath]
    /\ consulted = [r \in Requests |-> <<>>]
    /\ storeReply = [r \in Requests |-> NOT_ASKED]
    /\ extra_auth_headers = [r \in Requests |-> <<>>]
    /\ calls = [r \in Requests |-> <<>>]
    /\ inflight = [r \in Requests |-> {}]
    /\ errors = [r \in Requests |-> <<>>]
    /\ tmpdir = [r \in Requests |-> {}]
    /\ outcome = [r \in Requests |-> Running]
    /\ lastServed = NoLastServed

\* no call of the sanitizer on its own
InitNoSanitizer ==
    /\ raw_text = <<>>
    /\ once = <<>>
    /\ twice = <<>>
    /\ sanitized = 0

\* what classified_key holds before _domain_key_for has been called
NOT_CLASSIFIED == [key |-> <<>>, raised |-> "not called"]

\* no call of the classifier on its own
\* what classified_platform holds before the choices are made
NOT_DECIDED == [var |-> "not called", referer |-> <<>>, fmt |-> ""]

InitNoClassifier ==
    /\ classified_url = NO_URL
    /\ classified_key = NOT_CLASSIFIED
    /\ classified_platform = NOT_DECIDED

Init ==
    /\ environ \in Environments
    /\ supabase \in SupabaseSettings
    /\ InitServer
    /\ InitNoSanitizer
    /\ InitNoClassifier

\* the calls of _download_best_audio: (url, cookies_txt, prefer_cookie_source)
DownloadCalls ==
    ((Urls \ {OTHER_URL}) \X {<<>>, INLINE_COOKIES} \X {"auto"})
        \cup ({YOUTU_BE_URL, INSTAGRAM_URL} \X {<<>>, SECURE_COOKIES} \X {"auto", "supabase"})

\* the calls of _choose_cookiefile: (url, cookies_txt, prefer)
ResolverCalls == Urls \X CookieTexts \X PreferValues

\* _download_best_audio(u, txt, pref) is called: tmpdir is made, the URL normalized
CallWith(r, arguments) ==
    /\ pc[r] = "idle"
    /\ Len(tmpfiles) + 2 <= MaxTmpFiles
    /\ \E c \in arguments :
           /\ url' = [url EXCEPT ![r] = _normalize_youtube_url(c[1])]
           /\ cookies_txt' = [cookies_txt EXCEPT ![r] = c[2]]
           /\ prefer' = [prefer EXCEPT ![r] = c[3]]
    /\ tmpdir' = [tmpdir EXCEPT ![r] = {}]
    /\ pc' = [pc EXCEPT ![r] = "choose"]
    /\ UNCHANGED <<environ, supabase, tmpfiles, globalVars, cookiefile, consulted,
                   storeReply, extra_auth_headers, calls, inflight, errors, outcome,
                   lastServed,
                   sanitizerVars, classifierVars>>

Call(r) == CallWith(r, DownloadCalls)

\* _choose_cookiefile(u, txt, pref) is called on its own
ResolverCall(r) ==
    /\ pc[r] = "idle"
    /\ Len(tmpfiles) + 2 <= MaxTmpFiles
    /\ \E c \in ResolverCalls :
           /\ url' = [url EXCEPT ![r] = c[1]]
           /\ cookies_txt' = [cookies_txt EXCEPT ![r] = c[2]]
           /\ prefer' = [prefer EXCEPT ![r] = c[3]]
    /\ pc' = [pc EXCEPT ![r] = "choose"]
    /\ UNCHANGED <<environ, supabase, tmpfiles, globalVars, cookiefile, consulted,
                   storeReply, extra_auth_headers, calls, inflight, errors, tmpdir,
                   outcome, lastServed,
                   sanitizerVars, classifierVars>>

Range(seq) == {seq[i] : i \in 1..Len(seq)}

\* cookiefile = _choose_cookiefile(url, cookies_txt, prefer_cookie_source)
ChooseCookiefile(r) ==
    /\ pc[r] = "choose"
    /\ \E reply \in StoreResponses :
       \E res \in {_choose_cookiefile(url[r], cookies_txt[r], prefer[r], reply, tmpfiles)} :
           LET asked == FROM_SUPABASE \in Range(res.consulted) /\ QueriesStore(url[r])
           IN  /\ tmpfiles' = res.files
               /\ LAST_COOKIE_SOURCE' = res.source
               /\ LAST_COOKIE_SNAPSHOT' = res.snapshot
               /\ consulted' = [consulted EXCEPT ![r] = res.consulted]
               /\ storeReply' = [storeReply EXCEPT ![r] = IF asked THEN reply ELSE NOT_ASKED]
               /\ cookiefile' = [cookiefile EXCEPT ![r] = res.ret]
               /\ IF res.raised # None
                  THEN /\ pc' = [pc EXCEPT ![r] = "raised"]
                       /\ outcome' = [outcome EXCEPT ![r] = Raised(res.raised, <<>>, "")]
                  ELSE /\ pc' = [pc EXCEPT ![r] = "chosen"]
                       /\ UNCHANGED outcome
               /\ lastServed' =
                      IF res.ret # NoPath /\ res.source = "supabase"
                      THEN [key |-> _domain_key_for(url[r]).key, path |-> res.ret,
                            fresh |-> TRUE]
                      ELSE lastServed
    /\ UNCHANGED <<environ, supabase, AUTH_SNAPSHOT, AUTH_USING, SUCCESS_CLIENT, url,
                   cookies_txt, prefer, extra_auth_headers, calls, inflight, errors,
                   tmpdir,
                   sanitizerVars, classifierVars>>

\* lines 350 to 458: the globals are reset, the Authorization headers derived
Prepare(r) ==
    /\ pc[r] = "chosen"
    /\ \E auth \in {IF /\ cookiefile[r] # NoPath
                         /\ \/ Contains(HostOf(url[r]), "youtube")
                            \/ Contains(HostOf(url[r]), "youtu.be")
                      THEN _build_sapisidhash_headers("https://www.youtube.com",
                                                      cookiefile[r], tmpfiles)
                      ELSE [headers |-> <<>>, used |-> None]} :
           /\ AUTH_SNAPSHOT' = auth.headers
           /\ AUTH_USING' = auth.used
           /\ extra_auth_headers' = [extra_auth_headers EXCEPT ![r] = auth.headers]
    /\ SUCCESS_CLIENT' = None
    /\ errors' = [errors EXCEPT ![r] = <<>>]
    \* the arguments and the resolver's frame are not read again
    /\ cookies_txt' = [cookies_txt EXCEPT ![r] = <<>>]
    /\ prefer' = [prefer EXCEPT ![r] = "auto"]
    /\ consulted' = [consulted EXCEPT ![r] = <<>>]
    /\ storeReply' = [storeReply EXCEPT ![r] = NOT_ASKED]
    /\ pc' = [pc EXCEPT ![r] = "loop"]
    /\ UNCHANGED <<environ, supabase, tmpfiles, LAST_COOKIE_SOURCE, LAST_COOKIE_SNAPSHOT,
                   url, cookiefile, calls, inflight, tmpdir, outcome, lastServed,
                   sanitizerVars, classifierVars>>

AttemptsOf(r) == Attempts(HostOf(url[r]), extra_auth_headers[r])

AfterSuccessContinues == "loop"

\* where the loop goes once an attempt has succeeded: break
AfterSuccess == "select"

\* where the loop goes once an attempt has failed: the next strategy
AfterFailure == "loop"

CookiefileOptionDropped(cf) == NoPath

\* what _run adds to ydl_opts: "if cookiefile: ydl_opts['cookiefile'] = cookiefile"
CookiefileOption(cf) == cf

\* the loop takes the next strategy and _run(ydl_opts) calls the downloader
Invoke(r) ==
    /\ pc[r] = "loop"
    /\ Len(calls[r]) < Len(AttemptsOf(r))
    /\ LET label == AttemptsOf(r)[Len(calls[r]) + 1].label
       IN  /\ calls' = [calls EXCEPT ![r] =
                            Append(@, [label |-> label,
                                       cookiefile |-> CookiefileOption(cookiefile[r]),
                                       http_headers |->
                                           AttemptsOf(r)[Len(calls[r]) + 1].http_headers,
                                       result |-> "running"])]
           /\ inflight' = [inflight EXCEPT ![r] = @ \cup {label}]
    /\ pc' = [pc EXCEPT ![r] = "download"]
    /\ UNCHANGED <<environ, supabase, tmpfiles, globalVars, url, cookies_txt, prefer,
                   cookiefile, consulted, storeReply, extra_auth_headers, errors, tmpdir,
                   outcome, lastServed,
                   sanitizerVars, classifierVars>>

CurrentLabel(r) == calls[r][Len(calls[r])].label

\* the entry appended to errors: f"{label.upper()}: {e}"
ErrorEntry(label, e) == [label |-> Upper(label), detail |-> e]

AppendErrorKeepsLast(errs, label, e) == <<ErrorEntry(label, e)>>

\* errors.append(f"{label.upper()}: {e}")
AppendError(errs, label, e) == Append(errs, ErrorEntry(label, e))

\* extract_info raises
AttemptFails(r) ==
    /\ pc[r] = "download"
    /\ \E e \in DownloadErrors :
           errors' = [errors EXCEPT ![r] = AppendError(@, CurrentLabel(r), e)]
    /\ calls' = [calls EXCEPT ![r][Len(calls[r])].result = "failed"]
    /\ inflight' = [inflight EXCEPT ![r] = @ \ {CurrentLabel(r)}]
    /\ pc' = [pc EXCEPT ![r] = AfterFailure]
    /\ UNCHANGED <<environ, supabase, tmpfiles, globalVars, url, cookies_txt, prefer,
                   cookiefile, consulted, storeReply, extra_auth_headers, tmpdir,
                   outcome, lastServed,
                   sanitizerVars, classifierVars>>

\* extract_info returns, leaving its files in tmpdir
AttemptSucceeds(r) ==
    /\ pc[r] = "download"
    /\ \E files \in DownloadedFiles : tmpdir' = [tmpdir EXCEPT ![r] = files]
    /\ SUCCESS_CLIENT' = CurrentLabel(r)
    /\ calls' = [calls EXCEPT ![r][Len(calls[r])].result = "ok"]
    /\ inflight' = [inflight EXCEPT ![r] = @ \ {CurrentLabel(r)}]
    /\ pc' = [pc EXCEPT ![r] = AfterSuccess]
    /\ UNCHANGED <<environ, supabase, tmpfiles, LAST_COOKIE_SOURCE, LAST_COOKIE_SNAPSHOT,
                   AUTH_SNAPSHOT, AUTH_USING, url, cookies_txt, prefer, cookiefile,
                   consulted, storeReply, extra_auth_headers, errors, outcome,
                   lastServed,
                   sanitizerVars, classifierVars>>

\* the else of the for loop: every strategy was tried and none succeeded
Exhausted(r) ==
    /\ pc[r] = "loop"
    /\ Len(calls[r]) >= Len(AttemptsOf(r))
    /\ outcome' = [outcome EXCEPT ![r] =
                       Raised("Download falhou.", errors[r], HintFor(HostOf(url[r])))]
    /\ pc' = [pc EXCEPT ![r] = "raised"]
    /\ UNCHANGED <<environ, supabase, tmpfiles, globalVars, url, cookies_txt, prefer,
                   cookiefile, consulted, storeReply, extra_auth_headers, calls,
                   inflight, errors, tmpdir, lastServed,
                   sanitizerVars, classifierVars>>

\* the first extension of ExtensionOrder, from position i on, that has a file in dir
RECURSIVE FirstExtension(_, _)
FirstExtension(dir, i) ==
    IF i > Len(ExtensionOrder) THEN ""
    ELSE IF ExtensionOrder[i] \in dir THEN ExtensionOrder[i]
    ELSE FirstExtension(dir, i + 1)

\* lines 491 to 497: the file is picked by extension
SelectFile(r) ==
    /\ pc[r] = "select"
    /\ LET ext == FirstExtension(tmpdir[r], 1)
       IN  IF ext # ""
           THEN /\ outcome' = [outcome EXCEPT ![r] = Returned(ext)]
                /\ pc' = [pc EXCEPT ![r] = "returned"]
           ELSE /\ outcome' = [outcome EXCEPT ![r] =
                                   Raised("Nenhum arquivo de audio foi baixado.", <<>>, "")]
                /\ pc' = [pc EXCEPT ![r] = "raised"]
    /\ UNCHANGED <<environ, supabase, tmpfiles, globalVars, url, cookies_txt, prefer,
                   cookiefile, consulted, storeReply, extra_auth_headers, calls,
                   inflight, errors, tmpdir, lastServed,
                   sanitizerVars, classifierVars>>

\* the call is over: its arguments and locals are gone
FrameGone(r) ==
    /\ pc' = [pc EXCEPT ![r] = "idle"]
    /\ url' = [url EXCEPT ![r] = NO_URL]
    /\ cookies_txt' = [cookies_txt EXCEPT ![r] = <<>>]
    /\ prefer' = [prefer EXCEPT ![r] = "auto"]
    /\ cookiefile' = [cookiefile EXCEPT ![r] = NoPath]
    /\ consulted' = [consulted EXCEPT ![r] = <<>>]
    /\ storeReply' = [storeReply EXCEPT ![r] = NOT_ASKED]
    /\ extra_auth_headers' = [extra_auth_headers EXCEPT ![r] = <<>>]
    /\ calls' = [calls EXCEPT ![r] = <<>>]
    /\ inflight' = [inflight EXCEPT ![r] = {}]
    /\ errors' = [errors EXCEPT ![r] = <<>>]
    /\ tmpdir' = [tmpdir EXCEPT ![r] = {}]
    /\ outcome' = [outcome EXCEPT ![r] = Running]
    /\ UNCHANGED <<environ, supabase, tmpfiles, globalVars, lastServed,
                   sanitizerVars, classifierVars>>

\* _download_best_audio has returned or raised: the route answers (send_file, or
\* the error as JSON)
Respond(r) ==
    /\ pc[r] \in {"returned", "raised"}
    /\ FrameGone(r)

\* history: the time to live of the jar last served by the remote store runs out
TtlElapses ==
    /\ \A r \in Requests : pc[r] = "idle"
    /\ lastServed.fresh
    /\ lastServed' = [lastServed EXCEPT !.fresh = FALSE]
    /\ UNCHANGED <<environ, supabase, tmpfiles, globalVars, requestVars,
                   sanitizerVars, classifierVars>>

\* one worker: the requests are served one after the other
Serial == {"r1"}

Next ==
    \/ \E r \in Serial :
           \/ Call(r)
           \/ ChooseCookiefile(r)
           \/ Prepare(r)
           \/ Invoke(r)
           \/ AttemptFails(r)
           \/ AttemptSucceeds(r)
           \/ Exhausted(r)
           \/ SelectFile(r)
           \/ Respond(r)
    \/ TtlElapses

Spec == Init /\ [][Next]_vars

\* the resolver on its own: a sequence of calls of _choose_cookiefile
ResolverReturn(r) ==
    /\ pc[r] \in {"chosen", "raised"}
    /\ FrameGone(r)

NextResolver ==
    \/ \E r \in Serial :
           \/ ResolverCall(r)
           \/ ChooseCookiefile(r)
           \/ ResolverReturn(r)
    \/ TtlElapses

SpecResolver == Init /\ [][NextResolver]_vars

\* a call that has begun goes on: the interpreter runs the next statement,
\* requests.get has a timeout, and each downloader invocation returns or raises
Progress(r) ==
    \/ ChooseCookiefile(r)
    \/ Prepare(r)
    \/ Invoke(r)
    \/ AttemptFails(r)
    \/ AttemptSucceeds(r)
    \/ Exhausted(r)
    \/ SelectFile(r)

SpecFair == Spec /\ \A r \in Serial : WF_vars(Progress(r))

----------------------------------------------------------------------------
(* Two requests served at the same time: app.run serves each request in a thread
   of its own, and the steps of the two calls of _download_best_audio interleave *)

\* a deployment with no jar in the environment
ConcurrentEnvironments == {e \in Environments : \A v \in EnvVars : e[v] = UNSET}

\* a YouTube video, with cookies in the request or without
ConcurrentCalls == {YOUTU_BE_URL} \X {<<>>, INLINE_COOKIES} \X {"auto"}

\* the remote store is configured
ConcurrentSettings == {s \in SupabaseSettings : s.url # <<>> /\ s.key # ""}

InitConcurrent ==
    /\ environ \in ConcurrentEnvironments
    /\ supabase \in ConcurrentSettings
    /\ InitServer
    /\ InitNoSanitizer
    /\ InitNoClassifier

ConcurrentCall(r) == CallWith(r, ConcurrentCalls)

NextConcurrent ==
    \E r \in Requests :
        \/ ConcurrentCall(r)
        \/ ChooseCookiefile(r)
        \/ Prepare(r)
        \/ Invoke(r)
        \/ AttemptFails(r)
        \/ AttemptSucceeds(r)
        \/ Exhausted(r)
        \/ SelectFile(r)
        \/ Respond(r)

SpecConcurrent == InitConcurrent /\ [][NextConcurrent]_vars

----------------------------------------------------------------------------
(* The sanitizer on its own: _sanitize_netscape_text applied to a text and then
   to its own result *)

\* the longest text given to the sanitizer, in pieces
MaxPieces == 3

SPACED_LINE == CookieLine(".x.com", "TRUE", "n", "v", SP)
TABBED_LINE == CookieLine(".x.com", "TRUE", "n", "v", TAB)

\* what the texts are made of: white space, line ends of the three kinds, the
\* comment sign, a character that is not UTF-8, a word, the header, a cookie
\* line with spaces and one with tabs
Pieces ==
    {<<SP>>, <<TAB>>, <<LF>>, <<CR>>, <<"#">>, <<SURROGATE>>, <<"w">>,
     HEADER_NETSCAPE, SPACED_LINE, TABBED_LINE}

SanitizerInputs ==
    {Concat(ps) : ps \in UNION {[1..n -> Pieces] : n \in 0..MaxPieces}}

InitSanitizer ==
    /\ environ = [v \in EnvVars |-> UNSET]
    /\ supabase = [url |-> <<>>, key |-> ""]
    /\ InitServer
    /\ raw_text \in SanitizerInputs
    /\ once = <<>>
    /\ twice = <<>>
    /\ sanitized = 0
    /\ InitNoClassifier

\* once = _sanitize_netscape_text(raw_text)
SanitizeOnce ==
    /\ sanitized = 0
    /\ once' = _sanitize_netscape_text(raw_text)
    /\ sanitized' = 1
    /\ UNCHANGED <<environ, supabase, tmpfiles, globalVars, requestVars, lastServed,
                   raw_text, twice, classifierVars>>

\* twice = _sanitize_netscape_text(once)
SanitizeAgain ==
    /\ sanitized = 1
    /\ twice' = _sanitize_netscape_text(once)
    /\ sanitized' = 2
    /\ UNCHANGED <<environ, supabase, tmpfiles, globalVars, requestVars, lastServed,
                   raw_text, once, classifierVars>>

NextSanitizer == SanitizeOnce \/ SanitizeAgain

SpecSanitizer == InitSanitizer /\ [][NextSanitizer]_vars

----------------------------------------------------------------------------
(* The classifier on its own: _domain_key_for applied to a URL *)

\* the longest host given to the classifier, in fragments
MaxFragments == 2

\* what the hosts are made of: the names the rules look for, in lower and in
\* mixed case, a name no rule looks for, and a "[" that nothing closes
HostFragments ==
    {"www.", "WWW.", "youtube.com", "YouTube.COM", "youtu.be", "instagram.com",
     "tiktok.com", "facebook.com", "fb.watch", "example.com", "["}

\* the URLs given: the empty string and text without "//" have an empty netloc
ClassifierInputs ==
    {[netloc |-> h, path |-> "", query |-> {}] :
         h \in UNION {[1..n -> HostFragments] : n \in 0..MaxFragments}}

InitClassifier ==
    /\ environ = [v \in EnvVars |-> UNSET]
    /\ supabase = [url |-> <<>>, key |-> ""]
    /\ InitServer
    /\ InitNoSanitizer
    /\ classified_url \in ClassifierInputs
    /\ classified_key = NOT_CLASSIFIED
    /\ classified_platform = NOT_DECIDED

\* classified_key = _domain_key_for(classified_url)
Classify ==
    /\ classified_key = NOT_CLASSIFIED
    /\ classified_key' = _domain_key_for(classified_url)
    /\ UNCHANGED <<environ, supabase, tmpfiles, globalVars, requestVars, lastServed,
                   sanitizerVars, classified_url, classified_platform>>

NextClassifier == Classify

SpecClassifier == InitClassifier /\ [][NextClassifier]_vars

\* the other choices made for the host of one request: the variable
\* _cookiefile_from_env_for reads, and the referer and the format of
\* _download_best_audio; each urlparse raises for a URL it rejects
DecidePlatform ==
    /\ classified_platform = NOT_DECIDED
    /\ classified_platform' =
           IF UrlParseRaises(classified_url)
           THEN [var |-> "ValueError", referer |-> <<>>, fmt |-> ""]
           ELSE [var |-> EnvVarFor(HostOf(classified_url)),
                 referer |-> RefererFor(HostOf(classified_url)),
                 fmt |-> pick_fmt(HostOf(classified_url))]
    /\ UNCHANGED <<environ, supabase, tmpfiles, globalVars, requestVars, lastServed,
                   sanitizerVars, classified_url, classified_key>>

NextPlatforms == Classify \/ DecidePlatform

SpecPlatforms == InitClassifier /\ [][NextPlatforms]_vars

----------------------------------------------------------------------------
(* Properties of _download_best_audio, checked under Spec *)

\* how the k-th downloader invocation of request r ended
Failed(r, k) == calls[r][k].result = "failed"
Succeeded(r, k) == calls[r][k].result = "ok"

\* the labels of the strategies, in the order the claims give them
LabelOrder == <<"web", "mweb", "web_embedded", "android", "ios", "tv", "tv_embedded">>

\* C1: when the attempt at position k succeeds, every attempt before it has failed
\* and no attempt is made after it: the downloader was invoked exactly k times,
\* and that stays so until the request is answered.
C1_ShortCircuit ==
    \A r \in Requests : \A k \in 1..Len(calls[r]) :
        Succeeded(r, k) =>
            /\ Len(calls[r]) = k
            /\ \A j \in 1..(k - 1) : Failed(r, j)
            /\ inflight[r] = {}

\* the third strategy was the first to succeed and the call has returned a file
C1_Witness ==
    \E r \in Requests :
        /\ pc[r] = "returned"
        /\ Len(calls[r]) = 3
        /\ Succeeded(r, 3)
        /\ Failed(r, 1) /\ Failed(r, 2)

\* C2: when all n strategies have failed the call does not return a path: it raises
\* one error, "Download falhou.", whose entries are exactly n, the i-th carrying
\* the (upper-cased) label of the i-th strategy, so each label once, in attempt order.
C2_ExhaustionError ==
    \A r \in Requests :
        (/\ Len(calls[r]) = Len(LabelOrder)
         /\ \A k \in 1..Len(calls[r]) : Failed(r, k))
        => /\ pc[r] \in {"loop", "raised"}
           /\ pc[r] = "raised" =>
                  /\ outcome[r].kind = "raised"
                  /\ outcome[r].error = "Download falhou."
                  /\ outcome[r].path = ""
                  /\ Len(outcome[r].entries) = Len(LabelOrder)
                  /\ \A i \in 1..Len(LabelOrder) :
                         /\ outcome[r].entries[i].label = Upper(LabelOrder[i])
                         /\ outcome[r].entries[i].label = Upper(calls[r][i].label)
                         /\ outcome[r].entries[i].detail \in DownloadErrors
                         /\ \A j \in 1..Len(LabelOrder) :
                                outcome[r].entries[j].label = outcome[r].entries[i].label
                                    => j = i

\* the seven strategies have failed and the error has been raised
C2_Witness ==
    \E r \in Requests :
        /\ pc[r] = "raised"
        /\ Len(calls[r]) = Len(LabelOrder)
        /\ \A k \in 1..Len(calls[r]) : Failed(r, k)
        /\ Len(outcome[r].entries) = Len(LabelOrder)

\* C3: the downloader invocations of a request follow the order web, mweb,
\* web_embedded, android, ios, tv, tv_embedded: the k-th invocation is for the k-th
\* label (so no label twice), every invocation but the last has failed (the next
\* starts only after a failure), and at most one invocation is in flight, the last.
C3_FixedOrder ==
    \A r \in Requests :
        /\ Len(calls[r]) <= Len(LabelOrder)
        /\ \A k \in 1..Len(calls[r]) : calls[r][k].label = LabelOrder[k]
        /\ \A k \in 1..(Len(calls[r]) - 1) : Failed(r, k)
        /\ Cardinality(inflight[r]) <= 1
        /\ inflight[r] =
               {calls[r][k].label : k \in {j \in 1..Len(calls[r]) :
                                               calls[r][j].result = "running"}}

\* the last strategy is in flight after the six before it failed
C3_Witness ==
    \E r \in Requests :
        /\ Len(calls[r]) = Len(LabelOrder)
        /\ inflight[r] = {"tv_embedded"}
        /\ \A k \in 1..(Len(calls[r]) - 1) : Failed(r, k)

----------------------------------------------------------------------------
(* Properties of _choose_cookiefile *)

\* _choose_cookiefile has returned or raised and nothing else has run since
ResolverEnded(r) == pc[r] \in {"chosen", "raised"} /\ calls[r] = <<>>

\* the inline text has a character that is not white space
RequestYields(r) == Strip(cookies_txt[r]) # <<>>

\* the variable of the platform is set and decodes
EnvYields(r) ==
    LET var == EnvVarFor(HostOf(url[r]))
    IN  /\ var # None
        /\ environ[var] # UNSET
        /\ ~B64DecodeRaises(environ[var])

\* the store was asked and answered 200 with a row that has cookie text
StoreYields(r) ==
    /\ storeReply[r].status = 200
    /\ storeReply[r].rows # <<>>
    /\ storeReply[r].rows[1].cookie_text # <<>>

Yields(r, fn) ==
    IF fn = FROM_REQUEST THEN RequestYields(r)
    ELSE IF fn = FROM_ENV THEN EnvYields(r)
    ELSE StoreYields(r)

\* the order of the sources the claims give for a value of prefer
ExpectedOrder(pref) ==
    IF pref = "env" THEN <<FROM_ENV, FROM_REQUEST, FROM_SUPABASE>>
    ELSE IF pref = "supabase" THEN <<FROM_SUPABASE, FROM_REQUEST, FROM_ENV>>
    ELSE <<FROM_REQUEST, FROM_ENV, FROM_SUPABASE>>

SourceLabel(fn) ==
    IF fn = FROM_REQUEST THEN "request" ELSE IF fn = FROM_ENV THEN "env" ELSE "supabase"

\* the content of the jar returned to request r
Jar(r) == tmpfiles[cookiefile[r][1]]

\* the jar holds the text, as it is or with the CONSENT line added for YouTube
ComesFrom(jar, txt) == jar = txt \/ jar = txt \o CONSENT_LINE

EnvFails(r) ==
    LET var == EnvVarFor(HostOf(url[r]))
    IN  \/ var = None
        \/ environ[var] = UNSET
        \/ environ[var] = UNDECODABLE

\* the store fails: unconfigured, unreachable, a status that is not 200, or no row
StoreFails(r) ==
    \/ supabase.url = <<>>
    \/ supabase.key = ""
    \/ storeReply[r] = TIMEOUT
    \/ storeReply[r].status # 200
    \/ storeReply[r].rows = <<>>

C9_LastCookieSource ==
    \A r \in Requests :
        (pc[r] = "chosen" /\ calls[r] = <<>>)
        => /\ cookiefile[r] = NoPath <=> LAST_COOKIE_SOURCE = "none"
           /\ cookiefile[r] # NoPath =>
                  /\ LAST_COOKIE_SOURCE = SourceLabel(consulted[r][Len(consulted[r])])
                  /\ LAST_COOKIE_SOURCE = "request" =>
                         ComesFrom(Jar(r), _sanitize_netscape_text(cookies_txt[r]))
                  /\ LAST_COOKIE_SOURCE = "env" =>
                         ComesFrom(Jar(r), B64Decode(environ[EnvVarFor(HostOf(url[r]))]))
                  /\ LAST_COOKIE_SOURCE = "supabase" =>
                         ComesFrom(Jar(r), _sanitize_netscape_text(
                                               storeReply[r].rows[1].cookie_text))

\* a resolution that returned None after an earlier one had returned a jar
C9_Witness ==
    \E r \in Requests :
        /\ pc[r] = "chosen"
        /\ cookiefile[r] = NoPath
        /\ LAST_COOKIE_SOURCE = "none"
        /\ tmpfiles # <<>>

----------------------------------------------------------------------------
(* Properties of _sanitize_netscape_text, checked under SpecSanitizer *)

\* C10: sanitizing the result of the sanitizer gives that result again.
C10_Idempotent == sanitized = 2 => twice = once

\* a text with a leading blank, fields separated by spaces and a CR line end and no
\* header: the first pass added the header and the tabs, the second changed nothing
C10_Witness ==
    /\ sanitized = 2
    /\ raw_text = <<SP>> \o SPACED_LINE \o <<CR>>
    /\ StartsWith(once, HEADER_NETSCAPE)
    /\ \E i \in 1..Len(once) : once[i] = TAB
    /\ once # raw_text
    /\ twice = once

----------------------------------------------------------------------------
(* Properties of _domain_key_for, checked under SpecClassifier *)

\* the host has none of the names the rules look for
NoPlatformRule(host) ==
    \A i \in 1..Len(host) :
        host[i] \notin {"youtube.com", "youtu.be", "instagram.com", "tiktok.com",
                        "facebook.com", "fb.watch"}

\* C14: for every input _domain_key_for returns a value and does not raise; a
\* host that matches no platform rule gives the host itself, in lower case, and
\* "unknown" when it is empty.
C14_ClassifierTotal ==
    classified_key # NOT_CLASSIFIED =>
        /\ classified_key.raised = None
        /\ classified_key.key # <<>>
        /\ NoPlatformRule(HostOf(classified_url)) =>
               classified_key.key = IF classified_url.netloc = <<>> THEN <<"unknown">>
                                ELSE HostOf(classified_url)

----------------------------------------------------------------------------
(* More properties of _sanitize_netscape_text, checked under SpecSanitizer *)

\* the three lines of the standard header
HeaderBlock == <<HEADER_NETSCAPE, HEADER_URL, HEADER_GENERATED>>

\* the lines of a text, each ended by "\n"
OutputLines(txt) ==
    LET parts == SplitOn(txt, LF)
    IN  SubSeq(parts, 1, Len(parts) - 1)

\* C11, as the claim states it: the output for a text that is not empty starts with
\* the three header lines, and no line after them is one of the header lines.
C11_HeaderOnceAtTop ==
    (sanitized >= 1 /\ raw_text # <<>>) =>
        LET lines == OutputLines(once)
        IN  /\ Len(lines) >= Len(HeaderBlock)
            /\ SubSeq(lines, 1, Len(HeaderBlock)) = HeaderBlock
            /\ \A i \in (Len(HeaderBlock) + 1)..Len(lines) : lines[i] \notin Range(HeaderBlock)

\* the one line of a text without line ends, as the loop sees it
OnlyLine(txt) == RStrip(Utf8Ignore(txt))

\* C13, as the claim states it: a text of one line that is not a comment and has
\* no tab, and whose fields, split at white space, are 7 (the 7th being all that
\* follows the 6th separator), gives as its last line the 7 fields joined by
\* tabs; a line that has a tab is the last line of the output as it was.
C13_SpaceSplitRewrite ==
    (/\ sanitized >= 1
     /\ \A i \in 1..Len(raw_text) : raw_text[i] \notin {LF, CR}
     /\ Strip(OnlyLine(raw_text)) # <<>>
     /\ Head(Strip(OnlyLine(raw_text))) # "#")
    => LET line == OnlyLine(raw_text)
           fields == ReSplitWs(Strip(line), 6)
           lines == OutputLines(once)
       IN  /\ lines # <<>>
           /\ (TAB \notin Range(line) /\ Len(fields) = 7)
                  => lines[Len(lines)] = Join(fields, <<TAB>>)
           /\ TAB \in Range(line) => lines[Len(lines)] = line

----------------------------------------------------------------------------
(* Properties of the jars the resolver writes, checked under SpecResolver *)

\* C12, as the claim states it: in every jar file written, each line that is not
\* empty and not a comment has exactly 7 fields separated by tabs.
C12_SevenTabFields ==
    \A i \in 1..Len(tmpfiles) :
        \A line \in Range(SplitOn(tmpfiles[i], LF)) :
            \/ line = <<>>
            \/ Head(line) = "#"
            \/ Len(SplitOn(line, TAB)) = 7

----------------------------------------------------------------------------
(* More properties of _download_best_audio, checked under Spec *)

\* every strategy has failed and the error has been raised
ExhaustedRaised(r) ==
    /\ pc[r] = "raised"
    /\ Len(calls[r]) = Len(LabelOrder)
    /\ \A k \in 1..Len(calls[r]) : Failed(r, k)

PreferenceOrder == <<"m4a", "webm", "opus", "mp3", "mp4", "mkv">>
Rank(ext) == CHOOSE i \in 1..Len(PreferenceOrder) : PreferenceOrder[i] = ext

\* C16: once a strategy has succeeded and the call has ended, either the working
\* directory has a file with a listed extension and the file returned has the one
\* of them that comes first in m4a, webm, opus, mp3, mp4, mkv, or it has none and
\* the call has raised "Nenhum arquivo de audio foi baixado.".
C16_FileSelection ==
    \A r \in Requests :
        (/\ pc[r] \in {"returned", "raised"}
         /\ \E k \in 1..Len(calls[r]) : Succeeded(r, k))
        => LET listed == tmpdir[r] \cap Range(PreferenceOrder)
           IN  IF listed = {}
               THEN /\ outcome[r].kind = "raised"
                    /\ outcome[r].error = "Nenhum arquivo de audio foi baixado."
                    /\ outcome[r].path = ""
               ELSE /\ outcome[r].kind = "returned"
                    /\ outcome[r].path \in listed
                    /\ \A e \in listed : Rank(outcome[r].path) <= Rank(e)

\* the directory holds a webm and an m4a file and the m4a file is returned
C16_Witness ==
    \E r \in Requests :
        /\ pc[r] = "returned"
        /\ tmpdir[r] = {"webm", "m4a"}
        /\ outcome[r].path = "m4a"

----------------------------------------------------------------------------
(* C17: the Authorization headers *)

\* the values the jar of request r gives the cookie called name
JarValues(r, name) ==
    IF cookiefile[r] = NoPath THEN {}
    ELSE LET lines == FileLines(ReadText(tmpfiles, cookiefile[r]))
             fields == [i \in 1..Len(lines) |-> ReSplitWs(Strip(lines[i]), 6)]
         IN  {fields[i][7] :
                 i \in {j \in 1..Len(lines) :
                            /\ ~StartsWith(lines[j], <<"#">>)
                            /\ Len(fields[j]) >= 7
                            /\ fields[j][6] = <<name>>}}

TargetIsYoutube(r) ==
    \E i \in 1..Len(url[r].netloc) :
        Lower(url[r].netloc[i]) \in {"youtube.com", "youtu.be"}

\* the cookie the headers of request r are to be derived from, None when from none
ExpectedAuthCookie(r) ==
    IF ~TargetIsYoutube(r) THEN None
    ELSE IF JarValues(r, "SAPISID") # {} THEN "SAPISID"
    ELSE IF JarValues(r, "__Secure-3PAPISID") # {} THEN "__Secure-3PAPISID"
    ELSE IF JarValues(r, "__Secure-1PAPISID") # {} THEN "__Secure-1PAPISID"
    ELSE None

\* the headers derived from the cookie called expected, which has one of values
CarriesAuth(expected, values, http_headers) ==
    IF expected = None
    THEN "Authorization" \notin DOMAIN http_headers
    ELSE /\ {"Authorization", "X-Origin", "X-Goog-AuthUser"} \subseteq DOMAIN http_headers
         /\ \E v \in values :
                http_headers["Authorization"]
                    = <<"SAPISIDHASH", "https://www.youtube.com">> \o v
         /\ http_headers["X-Origin"] = <<"https://www.youtube.com">>

\* C17: the headers are derived from the first of SAPISID, __Secure-3PAPISID,
\* __Secure-1PAPISID the jar has, only when there is a jar and the target is YouTube,
\* and every strategy run carries them; with no jar, another platform or none of the
\* cookies no strategy carries an Authorization header, and the request does not fail
\* before its strategies have run
C17_AuthHeaders ==
    \A r \in Requests :
        /\ pc[r] \in {"loop", "download"} \/ calls[r] # <<>> =>
               \E expected \in {ExpectedAuthCookie(r)} :
               \E values \in {JarValues(r, expected)} :
                   /\ \A k \in 1..Len(calls[r]) :
                          CarriesAuth(expected, values, calls[r][k].http_headers)
                   /\ pc[r] = "loop" =>
                          /\ AUTH_USING = expected
                          /\ \E attempts \in {AttemptsOf(r)} :
                                 \A i \in 1..Len(attempts) :
                                     CarriesAuth(expected, values, attempts[i].http_headers)
        /\ pc[r] = "raised" /\ cookiefile[r] # NoPath => calls[r] # <<>>

\* every strategy has run with headers derived from __Secure-3PAPISID, the jar having
\* __Secure-1PAPISID on an earlier line and no SAPISID
C17_Witness ==
    \E r \in Requests :
        /\ pc[r] = "raised"
        /\ Len(calls[r]) = Len(AttemptsOf(r))
        /\ ExpectedAuthCookie(r) = "__Secure-3PAPISID"
        /\ JarValues(r, "__Secure-1PAPISID") # {}
        /\ \A k \in 1..Len(calls[r]) :
               "Authorization" \in DOMAIN calls[r][k].http_headers

----------------------------------------------------------------------------
(* C18: the legacy columns of the remote store *)

\* C18: when the store holds the jar of the domain only in its legacy columns, the
\* resolver asked to prefer the store returns a file holding that jar, sanitized
C18_LegacyRowGivesJar ==
    \A r \in Requests :
        /\ pc[r] = "chosen"
        /\ prefer[r] = "supabase"
        /\ storeReply[r] = LEGACY_ONLY
        => /\ cookiefile[r] # NoPath
           /\ ReadText(tmpfiles, cookiefile[r])
                  = _sanitize_netscape_text(storeReply[r].legacy_rows[1].cookies_txt)

----------------------------------------------------------------------------
(* C19: the jar files of requests served at the same time *)

\* the jar text request r got from its source, before any CONSENT line; the
\* environment holds no jar here
WrittenJar(r) ==
    IF RequestYields(r) THEN _sanitize_netscape_text(cookies_txt[r])
    ELSE IF StoreYields(r) THEN _sanitize_netscape_text(storeReply[r].rows[1].cookie_text)
    ELSE <<>>

\* _choose_cookiefile has given request r a jar to which the CONSENT line had to be
\* added
ConsentAdded(r) ==
    /\ pc[r] = "chosen"
    /\ cookiefile[r] # NoPath
    /\ TargetIsYoutube(r)
    /\ WrittenJar(r) # <<>>
    /\ ~HasConsentCookie(NormalizeNewlines(Utf8Ignore(WrittenJar(r))))

\* no request holds the jar path of another, and a jar with the CONSENT line added
\* is a file of its own, next to the file written first, which is as it was written
JarsApart ==
    /\ \A r1, r2 \in Requests :
           r1 # r2 /\ cookiefile[r1] # NoPath => cookiefile[r1] # cookiefile[r2]
    /\ \A r \in Requests :
           ConsentAdded(r) =>
               /\ cookiefile[r][1] >= 2
               /\ tmpfiles[cookiefile[r][1] - 1] = WrittenJar(r)
               /\ HasConsentCookie(ReadText(tmpfiles, cookiefile[r]))

\* C19: whatever the interleaving of two requests, a step leaves every existing
\* file as it is, a request that gets a jar gets a file made in that step, no two
\* requests hold the same jar path, and the CONSENT line goes to a new file
C19_FreshFiles ==
    /\ []JarsApart
    /\ [][/\ Len(tmpfiles') >= Len(tmpfiles)
          /\ \A p \in 1..Len(tmpfiles) : tmpfiles'[p] = tmpfiles[p]
          /\ \A r \in Requests :
                 cookiefile'[r] # cookiefile[r] /\ cookiefile'[r] # NoPath
                     => cookiefile'[r][1] > Len(tmpfiles)]_vars

\* one request is downloading with its jar while the other has just got its own:
\* four files, each jar with the CONSENT line next to the file written first
C19_Witness ==
    \E r1, r2 \in Requests :
        /\ r1 # r2
        /\ pc[r1] = "download"
        /\ calls[r1][1].cookiefile = cookiefile[r1]
        /\ cookiefile[r1] = <<2>>
        /\ ~HasConsentCookie(ReadText(tmpfiles, <<1>>))
        /\ HasConsentCookie(ReadText(tmpfiles, <<2>>))
        /\ ConsentAdded(r2)
        /\ cookiefile[r2] = <<4>>
        /\ Len(tmpfiles) = 4

----------------------------------------------------------------------------
(* C20: the life of the jar files. app.py has no os.remove and no unlink, and every
   NamedTemporaryFile is made with delete=False: no action takes a file away, and
   the files of tmpfiles are the files that exist *)

\* C20: once the downloads have ended, and their requests are answered, the jar
\* files made for them are gone
C20_JarsDeleted ==
    (\A r \in Requests : pc[r] = "idle") => tmpfiles = <<>>

----------------------------------------------------------------------------
(* C21: SUCCESS_CLIENT along one call *)

\* the label SUCCESS_CLIENT is to hold for the call of request r: the label of its
\* attempt that succeeded, None while none has
ExpectedSuccessClient(r) ==
    IF \E k \in 1..Len(calls[r]) : Succeeded(r, k)
    THEN calls[r][CHOOSE k \in 1..Len(calls[r]) : Succeeded(r, k)].label
    ELSE None

\* C21: in a call that is running its strategies or has ended, SUCCESS_CLIENT is the
\* label of the strategy that succeeded in this call, None when none has (so None
\* after exhaustion), and never the label of a strategy that failed in this call
C21_SuccessClient ==
    \A r \in Requests :
        pc[r] \in {"loop", "download", "select", "returned", "raised"} =>
            /\ SUCCESS_CLIENT = ExpectedSuccessClient(r)
            /\ \A k \in 1..Len(calls[r]) : Failed(r, k) => SUCCESS_CLIENT # calls[r][k].label

----------------------------------------------------------------------------
(* C22: how a call ends *)

NO_AUDIO == "Nenhum arquivo de audio foi baixado."

\* the call of request r has ended in a file path, in the exhaustion error or in
\* the error of no audio file
EndedInOneOfThree(r) ==
    \/ /\ outcome[r].kind = "returned"
       /\ outcome[r].path \in tmpdir[r]
       /\ \E k \in 1..Len(calls[r]) : Succeeded(r, k)
    \/ /\ outcome[r].kind = "raised"
       /\ outcome[r].error = "Download falhou."
       /\ ExhaustedRaised(r)
    \/ /\ outcome[r].kind = "raised"
       /\ outcome[r].error = NO_AUDIO
       /\ \E k \in 1..Len(calls[r]) : Succeeded(r, k)
       /\ tmpdir[r] \cap {PreferenceOrder[i] : i \in 1..Len(PreferenceOrder)} = {}

\* C22: a call that has begun ends, in one of the three outcomes, and has made at
\* most 7 downloader invocations
C22_EndsInOneOfThree ==
    /\ \A r \in Requests : pc[r] = "choose" ~> pc[r] \in {"returned", "raised"}
    /\ [](\A r \in Requests :
              /\ Len(calls[r]) <= 7
              /\ pc[r] \in {"returned", "raised"} => EndedInOneOfThree(r))

----------------------------------------------------------------------------
(* C23: the platform of a host *)

PLATFORMS == {"youtube", "instagram", "tiktok", "facebook", "none"}

\* the platforms a canonical domain key stands for
PlatformsOfKey(key) ==
    CASE key = <<"youtube.com">> -> {"youtube"}
      [] key = <<"instagram.com">> -> {"instagram"}
      [] key = <<"tiktok.com">> -> {"tiktok"}
      [] key = <<"facebook.com">> -> {"facebook"}
      [] OTHER -> {"none"}

\* the platforms an environment variable stands for
PlatformsOfVar(var) ==
    CASE var = "YTDLP_COOKIES_B64" -> {"youtube"}
      [] var = "IG_COOKIES_B64" -> {"instagram"}
      [] var = "TK_COOKIES_B64" -> {"tiktok"}
      [] var = "FB_COOKIES_B64" -> {"facebook"}
      [] OTHER -> {"none"}

\* the platforms a referer stands for: the Facebook one is also the default
PlatformsOfReferer(referer) ==
    CASE referer = <<"https://www.youtube.com/">> -> {"youtube"}
      [] referer = <<"https://www.instagram.com/">> -> {"instagram"}
      [] referer = <<"https://www.tiktok.com/">> -> {"tiktok"}
      [] OTHER -> {"facebook", "none"}

\* the platforms a format stands for: TikTok and Facebook have the same format,
\* which is also the default
PlatformsOfFormat(fmt) ==
    CASE fmt = YT_FMT -> {"youtube"}
      [] fmt = IG_FMT -> {"instagram"}
      [] OTHER -> {"tiktok", "facebook", "none"}

\* C23: once the choices for a host are made, one platform is the platform of the
\* domain key, of the environment variable, of the referer and of the format
C23_PlatformsAgree ==
    /\ classified_key # NOT_CLASSIFIED
    /\ classified_platform # NOT_DECIDED
    /\ ~UrlParseRaises(classified_url)
    => \E p \in PLATFORMS :
           /\ p \in PlatformsOfKey(classified_key.key)
           /\ p \in PlatformsOfVar(classified_platform.var)
           /\ p \in PlatformsOfReferer(classified_platform.referer)
           /\ p \in PlatformsOfFormat(classified_platform.fmt)

----------------------------------------------------------------------------
(* C24: the variables /debug reads, after two requests served at the same time *)

\* the call of request r has returned or raised and is not yet answered
Finished(r) == pc[r] \in {"returned", "raised"} /\ calls[r] # <<>>

\* the variables /debug reads hold what the call of request r wrote
DescribesRequest(r) ==
    /\ LAST_COOKIE_SOURCE = "none" <=> cookiefile[r] = NoPath
    /\ LAST_COOKIE_SNAPSHOT =
           IF cookiefile[r] = NoPath THEN <<>> ELSE CookieSnapshot(tmpfiles, cookiefile[r])
    /\ AUTH_SNAPSHOT = extra_auth_headers[r]
    /\ AUTH_USING = IF extra_auth_headers[r] = <<>> THEN None ELSE ExpectedAuthCookie(r)
    /\ SUCCESS_CLIENT = ExpectedSuccessClient(r)

\* C24: when the calls of both requests have finished, the cookie source and
\* snapshot, the Authorization snapshot and its cookie, and the successful client
\* are those of one of the two requests
C24_DebugDescribesOneRequest ==
    (\A r \in Requests : Finished(r)) => \E r \in Requests : DescribesRequest(r)

====
